---- MODULE Spec2Model ----
(***************************************************************************)
(* A model of src/main.rs: the mnttab reader get_mnttab_ents, the option   *)
(* lookup MntTabEnt::getopt and the per-path loop of main (statvfs, stat,  *)
(* the st_fstype check, the mnttab match and its classification).          *)
(*                                                                         *)
(* Strings the program only compares (file-system type names, the special  *)
(* device, path arguments) are TLA+ strings.  Strings the program takes    *)
(* apart or builds (the mntopts list, the hexadecimal rendering of f_fsid) *)
(* are sequences of one-character strings, so that split(','),             *)
(* split_once('=') and format!("{:x}") are computed, not assumed.          *)
(***************************************************************************)
EXTENDS Integers, Sequences, FiniteSets, TLC

VARIABLES
    mnttab,     \* the content of /etc/mnttab: the raw entries getextmntent yields
    args,       \* a.free: the path arguments
    pc,         \* where the program is: "start", "reading", "loop", "stat", "done"
    fh,         \* the FILE handle f of get_mnttab_ents: "none", "open", "closed"
    opens,      \* how many times fopen was called on the mnttab
    rpos,       \* how many raw entries getextmntent has handed out
    out,        \* the Vec `out` of get_mnttab_ents
    ents,       \* main's `ents`, set when get_mnttab_ents returns Ok
    idx,        \* the position of `arg` in a.free (1-based)
    f,          \* the statvfs result of the current path
    probed,     \* the probe calls made so far, as <<call, position>>
    log,        \* one record per path that reached the mnttab match
    exit,       \* "running", "ok" (Ok(())), "err" (bail!), "panic" (unwrap)
    err         \* the error the run ended with

vars == <<mnttab, args, pc, fh, opens, rpos, out, ents, idx, f, probed, log, exit, err>>

(***************************************************************************)
(* Bounds of the model.                                                    *)
(***************************************************************************)
\* The longest mnttab.
MaxEnts == 3
\* The most path arguments.
MaxArgs == 2
\* The width of the minor part of a device number in the model (the
\* platform's is 32; the program only splits a device number in two).
MinorBits == 4

(***************************************************************************)
(* Character strings.                                                      *)
(***************************************************************************)
HexDigits == <<"0", "1", "2", "3", "4", "5", "6", "7", "8", "9", "a", "b", "c", "d", "e", "f">>

RECURSIVE Hex(_)
\* format!("{:x}", n): lower-case hexadecimal, no prefix, no leading zeros.
Hex(n) ==
    IF n < 16 THEN <<HexDigits[n + 1]>> ELSE Hex(n \div 16) \o <<HexDigits[(n % 16) + 1]>>

\* The position of the first c in s, or 0.
Find(s, c) ==
    IF \E i \in 1..Len(s) : s[i] = c
        THEN CHOOSE i \in 1..Len(s) : s[i] = c /\ \A j \in 1..(i - 1) : s[j] # c
        ELSE 0

RECURSIVE split(_, _)
\* str::split(c): the pieces between the separators; an empty string gives
\* one empty piece.
split(s, c) ==
    LET i == Find(s, c)
    IN  IF i = 0 THEN <<s>>
        ELSE <<SubSeq(s, 1, i - 1)>> \o split(SubSeq(s, i + 1, Len(s)), c)

\* Option<T>: None is the empty sequence, Some(v) the one-element sequence.
None == <<>>
Some(v) == <<v>>

\* str::split_once(c): Some((before, after)) of the first c, or None.
split_once(t, c) ==
    LET i == Find(t, c)
    IN  IF i = 0 THEN None
        ELSE Some(<<SubSeq(t, 1, i - 1), SubSeq(t, i + 1, Len(t))>>)

RECURSIVE filter_map_opts(_, _)
\* The closure of getopt under filter_map: a token is kept, as its value,
\* when it has a '=' and the text before it equals name.
filter_map_opts(toks, name) ==
    IF toks = <<>> THEN <<>>
    ELSE LET kv == split_once(Head(toks), "=")
             rest == filter_map_opts(Tail(toks), name)
         IN  IF kv # None
                 THEN IF kv[1][1] = name THEN <<kv[1][2]>> \o rest ELSE rest
                 ELSE rest

\* Iterator::next on a sequence.
next(it) == IF it = <<>> THEN None ELSE Some(Head(it))

\* A lookup that answers for the last valued token named name.
getoptLast(mntopts, name) ==
    LET vals == filter_map_opts(split(mntopts, ","), name)
    IN  IF vals = <<>> THEN None ELSE Some(vals[Len(vals)])

\* MntTabEnt::getopt.
getopt(mntopts, name) == next(filter_map_opts(split(mntopts, ","), name))

dev == <<"d", "e", "v">>

(***************************************************************************)
(* Device numbers.                                                         *)
(***************************************************************************)
RECURSIVE Pow2(_)
Pow2(n) == IF n = 0 THEN 1 ELSE 2 * Pow2(n - 1)

\* The device number with the given parts (what the kernel hands to stat).
makedev(ma, mi) == ma * Pow2(MinorBits) + mi
\* libc::major and libc::minor.
major(d) == d \div Pow2(MinorBits)
minor(d) == d % Pow2(MinorBits)

(***************************************************************************)
(* The environment: what /etc/mnttab may hold and what the probes answer.  *)
(***************************************************************************)
\* struct MntTabEnt.  utf8 is FALSE for a raw entry one of whose strings is
\* not UTF-8 (CStr::to_str fails on it).
Ent(special, fstype, mntopts, ma, mi, utf8) ==
    [special |-> special, mountp |-> "/mnt", fstype |-> fstype, mntopts |-> mntopts,
     time |-> "0", major |-> ma, minor |-> mi, utf8 |-> utf8]

\* The major numbers in play: 9 stands for the zfs driver's, 10 for another.
Majors == {9, 10}

\* "rw,dev=3f"
OptsPlain == <<"r", "w", ",", "d", "e", "v", "=", "3", "f">>
\* "dev,dev=3f": a bare dev before the valued one
OptsBare == <<"d", "e", "v", ",", "d", "e", "v", "=", "3", "f">>
\* "dev=3f,dev=2a": two valued dev options
OptsTwo == <<"d", "e", "v", "=", "3", "f", ",", "d", "e", "v", "=", "2", "a">>
\* "dev=3F": the fsid in upper case
OptsUpper == <<"d", "e", "v", "=", "3", "F">>

RawEntries ==
    { Ent("pool/data", "zfs", OptsPlain, 9, 3, TRUE),
      Ent("pool/other", "zfs", OptsBare, 9, 7, TRUE),
      Ent("pool/two", "zfs", OptsTwo, 9, 3, TRUE),
      Ent("disk/ufs", "ufs", OptsPlain, 9, 3, TRUE),
      Ent("pool/maj", "zfs", OptsTwo, 10, 3, TRUE),
      Ent("pool/upper", "zfs", OptsUpper, 9, 3, TRUE),
      Ent("pool/bad", "zfs", OptsPlain, 9, 3, FALSE) }

\* The tables: up to MaxEnts raw entries, no entry twice (a mount appears once).
Tables ==
    UNION { {t \in [1..n -> RawEntries] : \A i, j \in 1..n : t[i] = t[j] => i = j} :
            n \in 0..MaxEnts }

AllPaths == <<"/a", "/b", "/c", "/d">>

FsTypes == {"zfs", "ufs"}
Fsids == {63, 42}
\* What statvfs(2) fills in: f_basetype and f_fsid.
StatvfsResults == [f_basetype : FsTypes, f_fsid : Fsids]
\* What stat(2) fills in: st_dev and st_fstype.
StatResults ==
    [st_dev : {makedev(ma, mi) : ma \in Majors, mi \in {3, 7}},
     st_fstype : FsTypes]

NoF == [f_basetype |-> "", f_fsid |-> 0]

(***************************************************************************)
(* Outcomes: what a path, or the run, ends with.                           *)
(***************************************************************************)
Outcome(kind, fs, path, cands) == [kind |-> kind, fs |-> fs, path |-> path, cands |-> cands]
NoErr == Outcome("none", "", "", <<>>)
\* enum WhatIsIt
Snapshot(fs) == Outcome("Snapshot", fs, "", <<>>)
Live(fs) == Outcome("Live", fs, "", <<>>)

Init ==
    /\ mnttab \in Tables
    /\ args \in {SubSeq(AllPaths, 1, n) : n \in 0..MaxArgs}
    /\ pc = "start"
    /\ fh = "none"
    /\ opens = 0
    /\ rpos = 0
    /\ out = <<>>
    /\ ents = <<>>
    /\ idx = 1
    /\ f = NoF
    /\ probed = <<>>
    /\ log = <<>>
    /\ exit = "running"
    /\ err = NoErr

(***************************************************************************)
(* get_mnttab_ents.                                                        *)
(***************************************************************************)
\* A close that is forgotten: the handle stays as it was.
fcloseForgotten(h) == h

\* libc::fclose(f).
fclose(h) == "closed"

\* bail!: the run ends with error e.
Bail(e) ==
    /\ exit' = "err"
    /\ err' = e
    /\ pc' = "done"

\* fopen returns NULL: bail!("open mnttab: ...").
fopen_null ==
    /\ pc = "start"
    /\ opens' = opens + 1
    /\ Bail(Outcome("MountTableOpenError", "", "", <<>>))
    /\ UNCHANGED <<mnttab, args, fh, rpos, out, ents, idx, f, probed, log>>

\* fopen succeeds and the read loop is entered.
fopen_ok ==
    /\ pc = "start"
    /\ opens' = opens + 1
    /\ fh' = "open"
    /\ pc' = "reading"
    /\ UNCHANGED <<mnttab, args, rpos, out, ents, idx, f, probed, log, exit, err>>

\* getextmntent returns 0 and every string of the entry is UTF-8: the
\* entry is pushed.
getextmntent_entry ==
    /\ pc = "reading"
    /\ rpos < Len(mnttab)
    /\ mnttab[rpos + 1].utf8
    /\ rpos' = rpos + 1
    /\ out' = Append(out, mnttab[rpos + 1])
    /\ UNCHANGED <<mnttab, args, pc, fh, opens, ents, idx, f, probed, log, exit, err>>

\* getextmntent returns 0 and a string of the entry is not UTF-8:
\* to_str().unwrap() panics, with no fclose on the way out.
getextmntent_unwrap_panic ==
    /\ pc = "reading"
    /\ rpos < Len(mnttab)
    /\ ~mnttab[rpos + 1].utf8
    /\ rpos' = rpos + 1
    /\ exit' = "panic"
    /\ err' = Outcome("Panic", "", "", <<>>)
    /\ pc' = "done"
    /\ UNCHANGED <<mnttab, args, fh, opens, out, ents, idx, f, probed, log>>

\* getextmntent returns r > 0: fclose, bail!("getextmntent error {r}").
getextmntent_error ==
    /\ pc = "reading"
    /\ fh' = fclose(fh)
    /\ Bail(Outcome("MountTableReadError", "", "", <<>>))
    /\ UNCHANGED <<mnttab, args, opens, rpos, out, ents, idx, f, probed, log>>

\* getextmntent returns r < 0 at the end of the table: break, fclose,
\* Ok(out), which main binds to ents.
getextmntent_eof ==
    /\ pc = "reading"
    /\ rpos = Len(mnttab)
    /\ fh' = fclose(fh)
    /\ ents' = out
    /\ pc' = "loop"
    /\ UNCHANGED <<mnttab, args, opens, rpos, out, idx, f, probed, log, exit, err>>

(***************************************************************************)
(* The mnttab match of main.                                               *)
(***************************************************************************)
\* The classification with the comparison of the minor numbers inverted.
WhatIsItInverted(ent, fs_minor) ==
    IF fs_minor = ent.minor THEN Snapshot(ent.special) ELSE Live(ent.special)

\* The value the filter_map closure gives for an entry that matches.
WhatIsIt(ent, fs_minor) ==
    IF fs_minor # ent.minor THEN Snapshot(ent.special) ELSE Live(ent.special)

\* The test of the closure without the comparison of the major numbers.
entMatchesAnyMajor(ent, basetype, fs_major, fsid) ==
    /\ ~(ent.fstype # basetype)
    /\ ~(getopt(ent.mntopts, dev) # Some(Hex(fsid)))

\* The two early `return None` of the filter_map closure, negated.
entMatches(ent, basetype, fs_major, fsid) ==
    /\ ~(ent.fstype # basetype \/ fs_major # ent.major)
    /\ ~(getopt(ent.mntopts, dev) # Some(Hex(fsid)))

RECURSIVE filter_map_ents(_, _, _, _, _)
\* ents.iter().filter_map(closure), as the sequence of what it yields.
filter_map_ents(es, basetype, fs_major, fs_minor, fsid) ==
    IF es = <<>> THEN <<>>
    ELSE LET rest == filter_map_ents(Tail(es), basetype, fs_major, fs_minor, fsid)
         IN  IF entMatches(Head(es), basetype, fs_major, fsid)
                 THEN <<WhatIsIt(Head(es), fs_minor)>> \o rest
                 ELSE rest

\* An iterator over ents that paths share: what the first path consumed
\* is gone for the next.
iterShared(es) == IF log # <<>> THEN <<>> ELSE es

\* ents.iter(): a fresh iterator over the whole of ents for every path.
iter(es) == es

\* bail!("two matches? {mat:?} and {another:?}")
TwoMatches(mat, another) == Outcome("AmbiguousMatch", "", "", <<mat, another>>)

\* The match that takes the first candidate and never asks for a second.
matchFirst(mats) ==
    IF next(mats) # None THEN next(mats)[1] ELSE Outcome("NoMatch", "", "", <<>>)

\* mats.next(), the second mats.next() and the final match of main.
match(mats) ==
    LET mat == next(mats)
    IN  IF mat # None
            THEN LET another == next(Tail(mats))
                 IN  IF another # None THEN TwoMatches(mat[1], another[1]) ELSE mat[1]
            ELSE Outcome("NoMatch", "", "", <<>>)

\* bail!("st_fstype {st_fstype:?} != f_basetype {basetype:?}")
Inconsistent == Outcome("InconsistentFsType", "", "", <<>>)

\* The body of the loop with the type check made after the match, so that
\* a failed match is reported first.
resolveCheckLate(fv, st, es) ==
    LET res == match(filter_map_ents(iter(es), fv.f_basetype, major(st.st_dev),
                                     minor(st.st_dev), fv.f_fsid))
    IN  IF res.kind \in {"NoMatch", "AmbiguousMatch"} THEN res
        ELSE IF st.st_fstype # fv.f_basetype THEN Inconsistent ELSE res

\* The body of the loop after the two probes: the st_fstype check, then
\* the match against ents.
resolve(fv, st, es) ==
    LET basetype == fv.f_basetype
        fs_major == major(st.st_dev)
        fs_minor == minor(st.st_dev)
    IN  IF st.st_fstype # basetype THEN Inconsistent
        ELSE match(filter_map_ents(iter(es), basetype, fs_major, fs_minor, fv.f_fsid))

\* A run that goes on to the next path after "no match found?".
bailsLenient(res) == res.kind \notin {"Live", "Snapshot", "NoMatch"}

\* Whether the body of the loop ends in bail! rather than in println!.
bails(res) == res.kind \notin {"Live", "Snapshot"}

(***************************************************************************)
(* The loop over the path arguments.                                       *)
(***************************************************************************)
\* The path bail! names when statvfs fails: {path:?}.
statvfs_err_path == args[idx]

\* The path bail! names when stat fails: a.free[0].
stat_err_path == args[1]

\* The error of a failed probe; its fs field holds the name of the call.
ProbeError(call, path) == Outcome("ProbeError", call, path, <<>>)

\* The loop is over: Ok(()).
loop_end ==
    /\ pc = "loop"
    /\ idx > Len(args)
    /\ exit' = "ok"
    /\ pc' = "done"
    /\ UNCHANGED <<mnttab, args, fh, opens, rpos, out, ents, idx, f, probed, log, err>>

\* statvfs(path) fails.
statvfs_fail ==
    /\ pc = "loop"
    /\ idx <= Len(args)
    /\ probed' = Append(probed, <<"statvfs", idx>>)
    /\ Bail(ProbeError("statvfs", statvfs_err_path))
    /\ UNCHANGED <<mnttab, args, fh, opens, rpos, out, ents, idx, f, log>>

\* statvfs(path) succeeds.
statvfs_ok ==
    /\ pc = "loop"
    /\ idx <= Len(args)
    /\ \E r \in StatvfsResults : f' = r
    /\ probed' = Append(probed, <<"statvfs", idx>>)
    /\ pc' = "stat"
    /\ UNCHANGED <<mnttab, args, fh, opens, rpos, out, ents, idx, log, exit, err>>

\* stat(path) fails.
stat_fail ==
    /\ pc = "stat"
    /\ probed' = Append(probed, <<"stat", idx>>)
    /\ Bail(ProbeError("stat", stat_err_path))
    /\ UNCHANGED <<mnttab, args, fh, opens, rpos, out, ents, idx, f, log>>

\* stat(path) succeeds and the rest of the loop body runs: the path is
\* classified and the classification printed, or the run bails.
stat_ok ==
    /\ pc = "stat"
    /\ \E st \in StatResults :
        LET res == resolve(f, st, ents)
        IN  /\ log' = Append(log, [pos |-> idx, path |-> args[idx], f |-> f, st |-> st,
                                   res |-> res])
            /\ IF bails(res)
                   THEN Bail(res) /\ UNCHANGED idx
                   ELSE idx' = idx + 1 /\ pc' = "loop" /\ UNCHANGED <<exit, err>>
    /\ probed' = Append(probed, <<"stat", idx>>)
    /\ UNCHANGED <<mnttab, args, fh, opens, rpos, out, ents, f>>

Next ==
    \/ fopen_null
    \/ fopen_ok
    \/ getextmntent_entry
    \/ getextmntent_unwrap_panic
    \/ getextmntent_error
    \/ getextmntent_eof
    \/ loop_end
    \/ statvfs_fail
    \/ statvfs_ok
    \/ stat_fail
    \/ stat_ok

Spec == Init /\ [][Next]_vars

(***************************************************************************)
(* What the properties below are stated with.  None of it is used by the   *)
(* actions above.                                                          *)
(***************************************************************************)
Classified == {"Live", "Snapshot"}

RECURSIVE HexValue(_)
\* The number a string of lower-case hexadecimal digits denotes.
HexValue(s) ==
    IF s = <<>> THEN 0
    ELSE 16 * HexValue(SubSeq(s, 1, Len(s) - 1))
         + (CHOOSE d \in 0..15 : HexDigits[d + 1] = s[Len(s)])

\* s is the lower-case hexadecimal rendering of n, without leading zeros.
IsLowerHexOf(s, n) ==
    /\ s # <<>>
    /\ \A i \in 1..Len(s) : \E d \in 1..16 : HexDigits[d] = s[i]
    /\ Len(s) > 1 => s[1] # "0"
    /\ HexValue(s) = n

\* The positions of opts at which a token "name=..." begins.
ValuedAt(opts, name) ==
    {p \in 1..Len(opts) :
        /\ (p = 1 \/ opts[p - 1] = ",")
        /\ p + Len(name) <= Len(opts)
        /\ SubSeq(opts, p, p + Len(name) - 1) = name
        /\ opts[p + Len(name)] = "="}

\* The positions of opts at which a token named name begins, valued or bare.
NamedAt(opts, name) ==
    ValuedAt(opts, name) \cup
    {p \in 1..Len(opts) :
        /\ (p = 1 \/ opts[p - 1] = ",")
        /\ p + Len(name) - 1 <= Len(opts)
        /\ SubSeq(opts, p, p + Len(name) - 1) = name
        /\ (p + Len(name) - 1 = Len(opts) \/ opts[p + Len(name)] = ",")}

Min(S) == CHOOSE x \in S : \A y \in S : x <= y

\* The text from position p up to the next comma or the end.
UpToComma(opts, p) ==
    LET stops == {q \in p..Len(opts) : opts[q] = ","}
    IN  SubSeq(opts, p, IF stops = {} THEN Len(opts) ELSE Min(stops) - 1)

\* The value of the first token "name=value" of opts, bare tokens passed over.
FirstValued(opts, name) ==
    IF ValuedAt(opts, name) = {} THEN None
    ELSE Some(UpToComma(opts, Min(ValuedAt(opts, name)) + Len(name) + 1))

\* The value of the first token named name, where a bare token counts and
\* has no value.
FirstNamed(opts, name) ==
    IF NamedAt(opts, name) = {} THEN None
    ELSE LET p == Min(NamedAt(opts, name))
         IN  IF p \in ValuedAt(opts, name)
                 THEN Some(UpToComma(opts, p + Len(name) + 1))
                 ELSE None

\* The option lists of the environment.
OptionLists == {e.mntopts : e \in RawEntries}

\* For each option list, its "dev" option by FirstValued and by FirstNamed.
DevValued == [o \in OptionLists |-> FirstValued(o, dev)]
DevNamed == [o \in OptionLists |-> FirstNamed(o, dev)]

\* For each fsid, the option lists whose "dev" option is its lower-case
\* hexadecimal rendering.
DevIsHexOf ==
    [n \in Fsids |->
        {o \in OptionLists : DevValued[o] # None /\ IsLowerHexOf(DevValued[o][1], n)}]

\* The records of ents that correlate with the probe results of log entry l:
\* same type name, same major, "dev" option the lower-case hex of the fsid.
Matching(l) ==
    {i \in 1..Len(ents) :
        /\ ents[i].fstype = l.f.f_basetype
        /\ ents[i].major = major(l.st.st_dev)
        /\ ents[i].mntopts \in DevIsHexOf[l.f.f_fsid]}

TypesAgree(l) == l.st.st_fstype = l.f.f_basetype

\* What record r is to the path of log entry l.
Expected(l, r) ==
    IF r.minor = minor(l.st.st_dev) THEN Live(r.special) ELSE Snapshot(r.special)

RECURSIVE InOrder(_)
\* The members of a set of numbers, ascending.
InOrder(S) == IF S = {} THEN <<>> ELSE <<Min(S)>> \o InOrder(S \ {Min(S)})

\* The candidates of log entry l, in table order, M being its matching records.
Candidates(l, M) ==
    LET is == InOrder(M)
    IN  [k \in 1..Len(is) |-> Expected(l, ents[is[k]])]

(***************************************************************************)
(* The properties.                                                         *)
(***************************************************************************)
\* C1: when the two type names agree and exactly one record r of the mount
\* table correlates (type name, major, dev option the lower-case hex of the
\* fsid), the path resolves to Live(r.special) if r.minor is the path's
\* minor and to Snapshot(r.special) if not; so two paths that differ only
\* in the minor resolve to the same device.
C1_ExactlyOneMatch ==
    \A k \in 1..Len(log) :
        LET M == Matching(log[k])
        IN  (TypesAgree(log[k]) /\ Cardinality(M) = 1) =>
                /\ log[k].res = Expected(log[k], ents[Min(M)])
                /\ \A j \in 1..Len(log) :
                    ( /\ log[k].f = log[j].f
                      /\ TypesAgree(log[j])
                      /\ major(log[k].st.st_dev) = major(log[j].st.st_dev) ) =>
                        /\ log[j].res.kind \in Classified
                        /\ log[j].res.fs = log[k].res.fs

\* A run in which one file system was seen live and through a snapshot.
C1_Witness ==
    \E k \in 1..Len(log), j \in 1..Len(log) :
        /\ log[k].res.kind = "Live"
        /\ log[j].res.kind = "Snapshot"
        /\ log[k].f = log[j].f
        /\ log[k].res.fs = log[j].res.fs
        /\ Cardinality(Matching(log[k])) = 1

\* C2: a path fails with InconsistentFsType exactly when st_fstype differs
\* from f_basetype, whatever the mount table holds.
C2_InconsistentIffTypesDiffer ==
    \A k \in 1..Len(log) :
        /\ (log[k].res.kind = "InconsistentFsType") <=> ~TypesAgree(log[k])
        /\ ~TypesAgree(log[k]) => (exit = "err" /\ err = log[k].res)

\* A type mismatch on a table in which several records correlate otherwise.
C2_Witness ==
    \E k \in 1..Len(log) :
        /\ log[k].res.kind = "InconsistentFsType"
        /\ Cardinality(Matching(log[k])) >= 2

\* C3: when the type names agree and no record correlates, the path fails
\* with NoMatch and nothing is classified; a record that agrees on only
\* some of type name, major and dev option does not prevent it.
C3_NoMatch ==
    \A k \in 1..Len(log) :
        (TypesAgree(log[k]) /\ Matching(log[k]) = {}) =>
            /\ log[k].res.kind = "NoMatch"
            /\ exit = "err"
            /\ err.kind = "NoMatch"

\* NoMatch on a table with a record that agrees on type name and major but
\* not on the dev option, and one that agrees on the dev option but not on
\* the major.
C3_Witness ==
    \E k \in 1..Len(log) :
        /\ log[k].res.kind = "NoMatch"
        /\ \E i \in 1..Len(ents) :
            /\ ents[i].fstype = log[k].f.f_basetype
            /\ ents[i].major = major(log[k].st.st_dev)
            /\ ents[i].mntopts \notin DevIsHexOf[log[k].f.f_fsid]
        /\ \E i \in 1..Len(ents) :
            /\ ents[i].mntopts \in DevIsHexOf[log[k].f.f_fsid]
            /\ ents[i].major # major(log[k].st.st_dev)

\* C4, as stated: when two or more records correlate, the path fails with
\* AmbiguousMatch carrying all of the candidates.
C4_AmbiguousCarriesAll ==
    \A k \in 1..Len(log) :
        (TypesAgree(log[k]) /\ Cardinality(Matching(log[k])) >= 2) =>
            /\ log[k].res.kind = "AmbiguousMatch"
            /\ log[k].res.cands = Candidates(log[k], Matching(log[k]))

\* C4, amended: when two or more records correlate, the path fails with
\* AmbiguousMatch carrying the first two candidates in table order, and is
\* never classified, whether or not a candidate has the path's minor.
C4_AmbiguousCarriesFirstTwo ==
    \A k \in 1..Len(log) :
        LET M == Matching(log[k])
        IN  (TypesAgree(log[k]) /\ Cardinality(M) >= 2) =>
            /\ log[k].res.kind = "AmbiguousMatch"
            /\ log[k].res.cands = SubSeq(Candidates(log[k], M), 1, 2)
            /\ exit = "err"
            /\ err = log[k].res

\* Three records correlate and one of them has the path's minor.
C4_Witness ==
    \E k \in 1..Len(log) :
        /\ log[k].res.kind = "AmbiguousMatch"
        /\ Cardinality(Matching(log[k])) >= 3
        /\ \E i \in Matching(log[k]) : ents[i].minor = minor(log[k].st.st_dev)

\* The probe calls are statvfs then stat for path 1, then for path 2, ...
ProbedInOrder ==
    \A k \in 1..Len(probed) :
        probed[k] = <<IF k % 2 = 1 THEN "statvfs" ELSE "stat", (k + 1) \div 2>>

PathErrors == {"ProbeError", "InconsistentFsType", "NoMatch", "AmbiguousMatch"}

\* C5: paths are processed in order and the first error ends the run: no
\* later path is probed or classified, every earlier path was classified,
\* the exit is nonzero; the exit is 0 only if every path was classified.
C5_FailFast ==
    /\ ProbedInOrder
    /\ \A k \in 1..Len(log) : log[k].pos = k /\ log[k].path = args[k]
    /\ \A k \in 1..Len(log) :
        log[k].res.kind \notin Classified =>
            /\ k = Len(log)
            /\ exit = "err"
            /\ err = log[k].res
            /\ pc = "done"
            /\ \A q \in 1..Len(probed) : probed[q][2] <= k
    /\ (exit = "err" /\ err.kind \in PathErrors) =>
        /\ pc = "done"
        /\ \A q \in 1..Len(probed) : probed[q][2] <= idx
        /\ \A j \in 1..(idx - 1) : j <= Len(log) /\ log[j].res.kind \in Classified
        /\ \A k \in 1..Len(log) : log[k].pos <= idx
    /\ exit = "ok" =>
        /\ Len(log) = Len(args)
        /\ \A k \in 1..Len(log) : log[k].res.kind \in Classified

\* A run that classified its first path and failed on its second.
C5_Witness ==
    /\ exit = "err"
    /\ idx = 2
    /\ Len(args) = 2
    /\ Len(log) = 2
    /\ log[1].res.kind \in Classified
    /\ log[2].res.kind = "NoMatch"

\* C6: a ProbeError carries the path being processed when the probe failed.
C6_ProbeErrorCarriesPath ==
    err.kind = "ProbeError" => err.path = args[idx]

\* Whenever a probe has been made the read of the table is over, and a
\* table error precedes every probe.
C7_ReadIsOver ==
    /\ opens <= 1
    /\ probed # <<>> =>
        /\ opens = 1
        /\ fh = "closed"
        /\ rpos = Len(mnttab)
        /\ ents = mnttab
    /\ err.kind \in {"MountTableOpenError", "MountTableReadError"} =>
        (probed = <<>> /\ log = <<>> /\ pc = "done")

\* Once the loop over the paths is entered, ents and the number of opens
\* stay as they are.
C7_EntsKept ==
    pc \in {"loop", "stat", "done"} => (ents' = ents /\ opens' = opens)

\* C7: the mount table is read once, the read is over (handle opened,
\* drained and closed) before the first probe, ents is the whole table and
\* is never changed afterwards, and an open or read error ends the run
\* before any probe.
C7_ReadOnceBeforePaths ==
    [](C7_ReadIsOver) /\ [][C7_EntsKept]_vars

\* Two paths resolved against a table of two records.
C7_Witness ==
    /\ Len(log) = 2
    /\ Len(ents) = 2
    /\ fh = "closed"
    /\ opens = 1

\* C8: once opened, the handle is released on every way out of
\* get_mnttab_ents, and a failure hands no records to the caller.
C8_HandleReleased ==
    /\ (pc \notin {"start", "reading"} /\ fh # "none") => fh = "closed"
    /\ err.kind \in {"MountTableOpenError", "MountTableReadError", "Panic"} => ents = <<>>

C10_FirstNamedCounts ==
    log # <<>> =>
        \A i \in 1..Len(ents) : getopt(ents[i].mntopts, dev) = DevNamed[ents[i].mntopts]

\* C10, amended: the lookup answers with the value of the first option
\* written dev=<value>, bare options passed over: a record with a bare dev
\* before dev=<hex> is compared by <hex>, and of two dev=<value> options
\* the first is compared.
C10_FirstValuedCounts ==
    log # <<>> =>
        /\ \A i \in 1..Len(ents) :
            getopt(ents[i].mntopts, dev) = DevValued[ents[i].mntopts]
        /\ \A k \in 1..Len(log), i \in 1..Len(ents) :
            ( /\ log[k].res.kind \in Classified
              /\ log[k].res.fs = ents[i].special
              /\ ents[i].fstype = log[k].f.f_basetype ) =>
                ents[i].mntopts \in DevIsHexOf[log[k].f.f_fsid]

\* A path classified by a record with a bare dev before the valued one, and
\* a path classified by a record with two valued dev options.
C10_Witness ==
    \E k \in 1..Len(log), j \in 1..Len(log), i \in 1..Len(ents), h \in 1..Len(ents) :
        /\ ents[i].mntopts = OptsBare
        /\ log[k].res.kind \in Classified
        /\ log[k].res.fs = ents[i].special
        /\ ents[h].mntopts = OptsTwo
        /\ log[j].res.kind \in Classified
        /\ log[j].res.fs = ents[h].special
====
